---- MODULE Spec2Model ----
(***************************************************************************)
(* Model of the OCI indexer (src/oci/indexer.go, lines 1-208): the         *)
(* Indexer object, its Init / Get / Close methods and the helpers          *)
(* getMockPackage and getPackageFromTag.                                   *)
(*                                                                         *)
(* Strings are sequences of one-character strings, so that splitting,      *)
(* concatenation and emptiness are computed as the Go code computes them.  *)
(***************************************************************************)
EXTENDS Integers, Sequences, FiniteSets, TLC

VARIABLES
    opts,      \* i.opts, the IndexerOptions given to NewIndexer
    refOK,     \* whether remote.NewRepository accepts "<Registry>/<Repository>"
    repo,      \* i.repo, the registry handle (nil until Init succeeds)
    remote,    \* the tag list of the remote repository, once it has been listed
    lastOp,    \* the method called last
    lastArg,   \* the opts argument of the last Get
    lastEnum,  \* what registry.Tags yielded in the last Get
    lastPkgs,  \* the packages the last Get returned
    lastErr,   \* the error the last call returned
    lastLogs,  \* the log entries the last call emitted
    closed,    \* history: Close has been called
    reclosed,  \* history: the last two calls were both Close
    initOK,    \* history: an Init call has succeeded
    initFailed,\* history: an Init call has failed
    calls      \* the Get calls in progress, one per concurrent caller: their
               \* position in Get and their local variables

vars == <<opts, refOK, repo, remote, lastOp, lastArg, lastEnum, lastPkgs,
          lastErr, lastLogs, closed, reclosed, initOK, initFailed, calls>>

----------------------------------------------------------------------------
(* Bounds of the model *)

(* the most tags a listing of the remote repository holds *)
MaxTags == 2
(* the largest listing: its size is the characters of its tags, plus one
   per tag *)
MaxListSize == 6

TagChars == {"a", ":"}

SeqsUpTo(S, n) == UNION {[1..k -> S] : k \in 0..n}

(* the lists of at most n tags of size at most c; a tag is any string,
   ':' included *)
RECURSIVE ListsWithin(_, _)
ListsWithin(n, c) ==
    IF n = 0 \/ c = 0 THEN {<<>>}
    ELSE {<<>>} \cup UNION {{<<t>> \o rest : rest \in ListsWithin(n - 1, c - Len(t) - 1)} :
                               t \in SeqsUpTo(TagChars, c - 1)}

TagLists == ListsWithin(MaxTags, MaxListSize)

(* the largest listing a Get call sees while other Get calls are in progress *)
MaxConcListSize == 3
ConcTagLists == ListsWithin(MaxTags, MaxConcListSize)

(* the callers that may be inside Get at the same time *)
Callers == {"c1", "c2"}

----------------------------------------------------------------------------
(* String literals of the source *)

EmptyString == <<>>
Colon == ":"
DefaultVersion == <<"1", ".", "0", ".", "0">>
MockPackageName == <<"o","c","i","-","m","o","c","k","-","p","a","c","k","a","g","e">>
MockPackageTitle == <<"M","o","c","k"," ","O","C","I"," ","P","a","c","k","a","g","e">>
MockDescriptionPrefix == <<"M","o","c","k"," ","p","a","c","k","a","g","e"," ","f","r","o","m"," ","O","C","I"," ","r","e","g","i","s","t","r","y"," ">>
TitlePrefix == <<"P","a","c","k","a","g","e"," ">>
DescriptionInfix == <<" ","f","r","o","m"," ","O","C","I"," ","r","e","g","i","s","t","r","y"," ">>
TypeIntegration == <<"i","n","t","e","g","r","a","t","i","o","n">>
CategoryWeb == <<"w","e","b">>
CategoryObservability == <<"o","b","s","e","r","v","a","b","i","l","i","t","y">>
Scheme == <<"o","c","i",":","/","/">>
Slash == <<"/">>
Latest == <<"l","a","t","e","s","t">>

(* Error values returned by the methods; NoError is Go's nil error *)
NoError == "nil"
ErrRegistryRequired == "OCI registry URL is required"
ErrRepositoryRequired == "OCI repository name is required"
ErrCreateReference == "failed to create repository reference"
ErrNotInitialized == "OCI indexer not initialized"
ErrTags == "registry.Tags failed"

----------------------------------------------------------------------------
(* Data *)

(* IndexerOptions values the indexer is constructed with *)
IndexerOptions ==
    [Registry : {EmptyString, <<"r">>},
     Repository : {EmptyString, <<"p">>},
     Username : {EmptyString, <<"u">>},
     Password : {EmptyString, <<"s">>},
     Insecure : BOOLEAN]

(* repo.Client: nil, an *auth.Client wrapping a fresh http.Client, or an
   *http.Client whose Transport may skip certificate verification *)
NilClient == [kind |-> "nil", InsecureSkipVerify |-> FALSE, HasCredential |-> FALSE]
AuthClient == [kind |-> "auth.Client", InsecureSkipVerify |-> FALSE, HasCredential |-> FALSE]
HttpClient == [kind |-> "http.Client", InsecureSkipVerify |-> FALSE, HasCredential |-> FALSE]

(* the field i.repo: a nil pointer or a *remote.Repository *)
NilRepo == [isNil |-> TRUE, Reference |-> EmptyString, Client |-> NilClient]

(* the opts argument of Get: nil, or GetOptions with a Filter *)
NilFilter == [isNil |-> TRUE, PackageName |-> EmptyString]
NilGetOptions == [isNil |-> TRUE, Filter |-> NilFilter]
GetOptionsSet ==
    {NilGetOptions,
     [isNil |-> FALSE, Filter |-> [isNil |-> FALSE, PackageName |-> EmptyString]],
     [isNil |-> FALSE, Filter |-> [isNil |-> FALSE, PackageName |-> <<"a">>]]}

(* what registry.Tags yields: an error, or a list of tags *)
NoEnum == [called |-> FALSE, err |-> NoError, tags |-> <<>>]
TagsFailed == [called |-> TRUE, err |-> ErrTags, tags |-> <<>>]
TagsListed(ts) == [called |-> TRUE, err |-> NoError, tags |-> ts]

(* the remote repository: not listed yet, or its tag list *)
Unlisted == [listed |-> FALSE, tags |-> <<>>]

LogEntry(level, msg) == [level |-> level, msg |-> msg]

----------------------------------------------------------------------------
(* strings.Split(s, sep) for a one-character separator *)

RECURSIVE Split(_, _)
Split(s, sep) ==
    IF \E i \in 1..Len(s) : s[i] = sep
    THEN LET i == CHOOSE k \in 1..Len(s) :
                      s[k] = sep /\ \A j \in 1..(k-1) : s[j] # sep
         IN <<SubSeq(s, 1, i-1)>> \o Split(SubSeq(s, i+1, Len(s)), sep)
    ELSE <<s>>

(* variant of getMockPackage: the category of the packages built from tags *)
getMockPackage_SameCategory(o) ==
    <<[Name |-> MockPackageName,
       Version |-> DefaultVersion,
       Title |-> MockPackageTitle,
       Description |-> MockDescriptionPrefix \o o.Registry \o Slash \o o.Repository,
       Type |-> TypeIntegration,
       Categories |-> <<CategoryObservability>>,
       BasePath |-> Scheme \o o.Registry \o Slash \o o.Repository \o <<Colon>> \o Latest]>>

(* variant of getMockPackage: another version string *)
getMockPackage_WrongVersion(o) ==
    <<[Name |-> MockPackageName,
       Version |-> <<"0", ".", "0", ".", "1">>,
       Title |-> MockPackageTitle,
       Description |-> MockDescriptionPrefix \o o.Registry \o Slash \o o.Repository,
       Type |-> TypeIntegration,
       Categories |-> <<CategoryWeb>>,
       BasePath |-> Scheme \o o.Registry \o Slash \o o.Repository \o <<Colon>> \o Latest]>>

(* getMockPackage: the one-element mock package list *)
getMockPackage(o) ==
    <<[Name |-> MockPackageName,
       Version |-> DefaultVersion,
       Title |-> MockPackageTitle,
       Description |-> MockDescriptionPrefix \o o.Registry \o Slash \o o.Repository,
       Type |-> TypeIntegration,
       Categories |-> <<CategoryWeb>>,
       BasePath |-> Scheme \o o.Registry \o Slash \o o.Repository \o <<Colon>> \o Latest]>>

(* getPackageFromTag: the package built from one tag, and the error (always nil) *)
getPackageFromTag(o, tag) ==
    LET first == Split(tag, Colon)[1]
        packageName == IF first = EmptyString THEN tag ELSE first
        parts == Split(tag, Colon)
        packageVersion == IF Len(parts) > 1 THEN parts[2] ELSE DefaultVersion
    IN [err |-> NoError,
        isNil |-> FALSE,
        pkg |-> [Name |-> packageName,
                 Version |-> packageVersion,
                 Title |-> TitlePrefix \o packageName,
                 Description |-> TitlePrefix \o packageName \o DescriptionInfix
                                   \o o.Registry \o Slash \o o.Repository,
                 Type |-> TypeIntegration,
                 Categories |-> <<CategoryObservability>>,
                 BasePath |-> Scheme \o o.Registry \o Slash \o o.Repository
                                \o <<Colon>> \o tag]]

(* variant of ProcessTags: each package is put in front of allPackages *)
RECURSIVE ProcessTags_Prepend(_, _, _)
ProcessTags_Prepend(o, tags, allPackages) ==
    IF tags = <<>> THEN allPackages
    ELSE LET r == getPackageFromTag(o, Head(tags))
         IN IF r.err # NoError
            THEN ProcessTags_Prepend(o, Tail(tags), allPackages)
            ELSE IF ~r.isNil
                 THEN ProcessTags_Prepend(o, Tail(tags), <<r.pkg>> \o allPackages)
                 ELSE ProcessTags_Prepend(o, Tail(tags), allPackages)

(* the loop of Get over the tags, appending to allPackages *)
RECURSIVE ProcessTags(_, _, _)
ProcessTags(o, tags, allPackages) ==
    IF tags = <<>> THEN allPackages
    ELSE LET r == getPackageFromTag(o, Head(tags))
         IN IF r.err # NoError
            THEN ProcessTags(o, Tail(tags), allPackages)
            ELSE IF ~r.isNil
                 THEN ProcessTags(o, Tail(tags), Append(allPackages, r.pkg))
                 ELSE ProcessTags(o, Tail(tags), allPackages)

(* the Warn entries the loop of Get logs, one per tag whose conversion failed *)
RECURSIVE ProcessTagsLogs(_, _)
ProcessTagsLogs(o, tags) ==
    IF tags = <<>> THEN <<>>
    ELSE <<LogEntry("debug", "Processing tag")>>
         \o (IF getPackageFromTag(o, Head(tags)).err # NoError
             THEN <<LogEntry("warn", "Failed to get package from tag")>>
             ELSE <<>>)
         \o ProcessTagsLogs(o, Tail(tags))

(* the log entries of a Get call that got as far as the loop over the tags *)
GetLogs(o, tags, last) ==
    <<LogEntry("debug", "Getting packages from OCI registry")>>
    \o ProcessTagsLogs(o, tags)
    \o <<LogEntry("info", last)>>

(* variant of GetResult: the error of registry.Tags is returned to the caller *)
GetResult_PropagateError(o, r, getOpts, enum) ==
    IF r.isNil
    THEN [pkgs |-> <<>>, err |-> ErrNotInitialized,
          logs |-> <<LogEntry("debug", "Getting packages from OCI registry")>>]
    ELSE IF enum.err # NoError
    THEN [pkgs |-> <<>>, err |-> enum.err,
          logs |-> <<LogEntry("debug", "Getting packages from OCI registry"),
                     LogEntry("warn", "Failed to list tags from OCI registry, returning mock package")>>]
    ELSE LET allPackages == ProcessTags(o, enum.tags, <<>>)
         IN IF Len(allPackages) = 0
            THEN [pkgs |-> getMockPackage(o), err |-> NoError,
                  logs |-> GetLogs(o, enum.tags, "No packages found in OCI registry tags, returning mock package")]
            ELSE [pkgs |-> allPackages, err |-> NoError,
                  logs |-> GetLogs(o, enum.tags, "Retrieved packages from OCI registry")]

(* variant of GetResult: no mock package when no package was found *)
GetResult_NoEmptyFallback(o, r, getOpts, enum) ==
    IF r.isNil
    THEN [pkgs |-> <<>>, err |-> ErrNotInitialized,
          logs |-> <<LogEntry("debug", "Getting packages from OCI registry")>>]
    ELSE IF enum.err # NoError
    THEN [pkgs |-> getMockPackage(o), err |-> NoError,
          logs |-> <<LogEntry("debug", "Getting packages from OCI registry"),
                     LogEntry("warn", "Failed to list tags from OCI registry, returning mock package")>>]
    ELSE [pkgs |-> ProcessTags(o, enum.tags, <<>>), err |-> NoError,
          logs |-> GetLogs(o, enum.tags, "Retrieved packages from OCI registry")]

(* variant of GetResult: the filter of getOpts is applied to the packages *)
GetResult_Filtered(o, r, getOpts, enum) ==
    IF r.isNil
    THEN [pkgs |-> <<>>, err |-> ErrNotInitialized,
          logs |-> <<LogEntry("debug", "Getting packages from OCI registry")>>]
    ELSE IF enum.err # NoError
    THEN [pkgs |-> getMockPackage(o), err |-> NoError,
          logs |-> <<LogEntry("debug", "Getting packages from OCI registry"),
                     LogEntry("warn", "Failed to list tags from OCI registry, returning mock package")>>]
    ELSE LET found == ProcessTags(o, enum.tags, <<>>)
             keep(p) == getOpts.isNil \/ getOpts.Filter.isNil
                        \/ getOpts.Filter.PackageName = EmptyString
                        \/ getOpts.Filter.PackageName = p.Name
             allPackages == SelectSeq(found, keep)
         IN IF Len(allPackages) = 0
            THEN [pkgs |-> getMockPackage(o), err |-> NoError,
                  logs |-> GetLogs(o, enum.tags, "No packages found in OCI registry tags, returning mock package")]
            ELSE [pkgs |-> allPackages, err |-> NoError,
                  logs |-> GetLogs(o, enum.tags, "Retrieved packages from OCI registry")]

(* Get: packages, error and log entries for the indexer (o, r), the argument
   getOpts and the outcome enum of registry.Tags *)
GetResult(o, r, getOpts, enum) ==
    IF r.isNil
    THEN [pkgs |-> <<>>, err |-> ErrNotInitialized,
          logs |-> <<LogEntry("debug", "Getting packages from OCI registry")>>]
    ELSE IF enum.err # NoError
    THEN [pkgs |-> getMockPackage(o), err |-> NoError,
          logs |-> <<LogEntry("debug", "Getting packages from OCI registry"),
                     LogEntry("warn", "Failed to list tags from OCI registry, returning mock package")>>]
    ELSE LET allPackages == ProcessTags(o, enum.tags, <<>>)
         IN IF Len(allPackages) = 0
            THEN [pkgs |-> getMockPackage(o), err |-> NoError,
                  logs |-> GetLogs(o, enum.tags, "No packages found in OCI registry tags, returning mock package")]
            ELSE [pkgs |-> allPackages, err |-> NoError,
                  logs |-> GetLogs(o, enum.tags, "Retrieved packages from OCI registry")]

(* a caller that is not inside Get *)
IdleCall ==
    [pc |-> "idle", arg |-> NilGetOptions, enum |-> NoEnum, idx |-> 0,
     allPackages |-> <<>>, pkgs |-> <<>>, err |-> NoError]

(* variant of AppendPackage: allPackages is one slice shared by the calls in
   their loop *)
AppendPackage_Shared(cs, c, pkg) ==
    [d \in DOMAIN cs |->
        IF cs[d].pc = "loop"
        THEN [cs[d] EXCEPT !.allPackages = Append(@, pkg)]
        ELSE cs[d]]

(* line 134: allPackages = append(allPackages, pkg), on the local variable of
   call c *)
AppendPackage(cs, c, pkg) ==
    [cs EXCEPT ![c].allPackages = Append(@, pkg)]

(* Init, lines 73-92: the Client of the new handle *)
InitClient(o) ==
    LET withAuth == o.Username # EmptyString /\ o.Password # EmptyString
        client1 == IF withAuth THEN AuthClient ELSE NilClient
        client2 == IF client1.kind = "nil" THEN HttpClient ELSE client1
        client3 == IF client2.kind = "http.Client"
                   THEN [client2 EXCEPT !.InsecureSkipVerify = TRUE]
                   ELSE client2
    IN IF o.Insecure THEN client3 ELSE client1

(* the log entries of an Init call returning err *)
InitLogs(o, err) ==
    <<LogEntry("info", "Initializing OCI indexer")>>
    \o (IF err = NoError /\ o.Username # EmptyString /\ o.Password # EmptyString
        THEN <<LogEntry("debug", "Authentication configured for OCI registry")>>
        ELSE <<>>)
    \o (IF err = NoError
        THEN <<LogEntry("info", "OCI indexer initialized successfully")>>
        ELSE <<>>)

(* the handle Init builds: remote.NewRepository(repoRef) with its Client set *)
NewHandle(o) ==
    [isNil |-> FALSE,
     Reference |-> o.Registry \o Slash \o o.Repository,
     Client |-> InitClient(o)]

(* variant of InitResult: the Repository is not validated *)
InitResult_NoRepositoryCheck(o, r, ok) ==
    IF o.Registry = EmptyString
    THEN [err |-> ErrRegistryRequired, repo |-> r, logs |-> InitLogs(o, ErrRegistryRequired)]
    ELSE IF ~ok
    THEN [err |-> ErrCreateReference, repo |-> r, logs |-> InitLogs(o, ErrCreateReference)]
    ELSE [err |-> NoError, repo |-> NewHandle(o), logs |-> InitLogs(o, NoError)]

(* variant of InitResult: i.repo is set before the options are validated *)
InitResult_EarlyAssign(o, r, ok) ==
    IF o.Registry = EmptyString
    THEN [err |-> ErrRegistryRequired, repo |-> NewHandle(o), logs |-> InitLogs(o, ErrRegistryRequired)]
    ELSE IF o.Repository = EmptyString
    THEN [err |-> ErrRepositoryRequired, repo |-> NewHandle(o), logs |-> InitLogs(o, ErrRepositoryRequired)]
    ELSE IF ~ok
    THEN [err |-> ErrCreateReference, repo |-> r, logs |-> InitLogs(o, ErrCreateReference)]
    ELSE [err |-> NoError, repo |-> NewHandle(o), logs |-> InitLogs(o, NoError)]

(* Init: error, the value of i.repo afterwards and the log entries, for the
   options o, the current handle r, and ok = whether remote.NewRepository
   accepts the reference *)
InitResult(o, r, ok) ==
    IF o.Registry = EmptyString
    THEN [err |-> ErrRegistryRequired, repo |-> r, logs |-> InitLogs(o, ErrRegistryRequired)]
    ELSE IF o.Repository = EmptyString
    THEN [err |-> ErrRepositoryRequired, repo |-> r, logs |-> InitLogs(o, ErrRepositoryRequired)]
    ELSE IF ~ok
    THEN [err |-> ErrCreateReference, repo |-> r, logs |-> InitLogs(o, ErrCreateReference)]
    ELSE [err |-> NoError, repo |-> NewHandle(o), logs |-> InitLogs(o, NoError)]

(* variant of CloseResult: Close fails without a handle *)
CloseResult_RequiresInit(r) ==
    [err |-> IF r.isNil THEN ErrNotInitialized ELSE NoError,
     repo |-> r,
     logs |-> <<LogEntry("debug", "Closing OCI indexer")>>]

(* Close: error, the value of i.repo afterwards and the log entries *)
CloseResult(r) ==
    [err |-> NoError, repo |-> r, logs |-> <<LogEntry("debug", "Closing OCI indexer")>>]

----------------------------------------------------------------------------
(* The state machine *)

(* NewIndexer: the options are stored, no handle yet *)
Init ==
    /\ opts \in IndexerOptions
    /\ refOK \in BOOLEAN
    /\ repo = NilRepo
    /\ remote = Unlisted
    /\ lastOp = "NewIndexer"
    /\ lastArg = NilGetOptions
    /\ lastEnum = NoEnum
    /\ lastPkgs = <<>>
    /\ lastErr = NoError
    /\ lastLogs = <<>>
    /\ closed = FALSE
    /\ reclosed = FALSE
    /\ initOK = FALSE
    /\ initFailed = FALSE
    /\ calls = [c \in Callers |-> IdleCall]

IndexerInit ==
    LET res == InitResult(opts, repo, refOK)
    IN /\ repo' = res.repo
       /\ lastOp' = "Init"
       /\ lastErr' = res.err
       /\ lastLogs' = res.logs
       /\ lastPkgs' = <<>>
       /\ lastEnum' = NoEnum
       /\ lastArg' = NilGetOptions
       /\ initOK' = (initOK \/ res.err = NoError)
       /\ initFailed' = (initFailed \/ res.err # NoError)
       /\ reclosed' = FALSE
       /\ UNCHANGED <<opts, refOK, remote, closed, calls>>

(* variant of Get: the handle is dropped when the listing fails *)
Get_DropsHandle ==
    \E getOpts \in GetOptionsSet :
      \E enum \in (IF repo.isNil THEN {NoEnum}
                   ELSE {TagsFailed}
                        \cup {TagsListed(ts) :
                                ts \in IF remote.listed THEN {remote.tags}
                                                        ELSE TagLists}) :
        LET res == GetResult(opts, repo, getOpts, enum)
        IN /\ lastOp' = "Get"
           /\ lastArg' = getOpts
           /\ lastEnum' = enum
           /\ lastPkgs' = res.pkgs
           /\ lastErr' = res.err
           /\ lastLogs' = res.logs
           /\ remote' = IF enum.called /\ enum.err = NoError
                         THEN [listed |-> TRUE, tags |-> enum.tags]
                         ELSE remote
           /\ reclosed' = FALSE
           /\ repo' = IF enum.called /\ enum.err # NoError THEN NilRepo ELSE repo
           /\ UNCHANGED <<opts, refOK, closed, initOK, initFailed, calls>>

(* Get: registry.Tags is called only with a handle; it fails, or lists the
   tags of the remote repository (any list, the first time it is listed) *)
Get ==
    \E getOpts \in GetOptionsSet :
      \E enum \in (IF repo.isNil THEN {NoEnum}
                   ELSE {TagsFailed}
                        \cup {TagsListed(ts) :
                                ts \in IF remote.listed THEN {remote.tags}
                                                        ELSE TagLists}) :
        LET res == GetResult(opts, repo, getOpts, enum)
        IN /\ lastOp' = "Get"
           /\ lastArg' = getOpts
           /\ lastEnum' = enum
           /\ lastPkgs' = res.pkgs
           /\ lastErr' = res.err
           /\ lastLogs' = res.logs
           /\ remote' = IF enum.called /\ enum.err = NoError
                         THEN [listed |-> TRUE, tags |-> enum.tags]
                         ELSE remote
           /\ reclosed' = FALSE
           /\ UNCHANGED <<opts, refOK, repo, closed, initOK, initFailed, calls>>

Close ==
    LET res == CloseResult(repo)
    IN /\ repo' = res.repo
       /\ lastOp' = "Close"
       /\ lastErr' = res.err
       /\ lastLogs' = res.logs
       /\ lastPkgs' = <<>>
       /\ lastEnum' = NoEnum
       /\ lastArg' = NilGetOptions
       /\ closed' = TRUE
       /\ reclosed' = (lastOp = "Close")
       /\ UNCHANGED <<opts, refOK, remote, initOK, initFailed, calls>>

Next == IndexerInit \/ Get \/ Close

Spec == Init /\ [][Next]_vars

----------------------------------------------------------------------------
(* Concurrent Get calls.  Get writes no field of the indexer, so each call
   is its steps over its own local variables: the nil check, the call of
   registry.Tags (the only point where it waits), one iteration of the loop
   at a time, and the return.  The remote repository may change between two
   listings, so each call sees a listing of its own. *)

indexerVars == <<opts, refOK, repo, remote, lastOp, lastArg, lastEnum, lastPkgs,
                 lastErr, lastLogs, closed, reclosed, initOK, initFailed>>

(* lines 100-105: the call is entered and i.repo is checked *)
GetCall(c) ==
    /\ calls[c].pc = "idle"
    /\ \E getOpts \in GetOptionsSet :
          calls' = [calls EXCEPT ![c] =
                      IF repo.isNil
                      THEN [IdleCall EXCEPT !.pc = "done", !.arg = getOpts,
                                            !.err = ErrNotInitialized]
                      ELSE [IdleCall EXCEPT !.pc = "tags", !.arg = getOpts]]
    /\ UNCHANGED indexerVars

(* lines 113-119: registry.Tags returns; on an error the mock package is
   the result *)
GetTags(c) ==
    /\ calls[c].pc = "tags"
    /\ \E enum \in {TagsFailed} \cup {TagsListed(ts) : ts \in ConcTagLists} :
          calls' = [calls EXCEPT ![c] =
                      IF enum.err # NoError
                      THEN [@ EXCEPT !.pc = "done", !.enum = enum,
                                     !.pkgs = getMockPackage(opts), !.err = NoError]
                      ELSE [@ EXCEPT !.pc = "loop", !.enum = enum, !.idx = 1]]
    /\ UNCHANGED indexerVars

(* lines 121-145: one iteration of the loop over the tags or, after the
   last one, the choice of the result *)
GetLoop(c) ==
    /\ calls[c].pc = "loop"
    /\ LET me == calls[c]
       IN IF me.idx <= Len(me.enum.tags)
          THEN LET r == getPackageFromTag(opts, me.enum.tags[me.idx])
               IN IF r.err = NoError /\ ~r.isNil
                  THEN calls' = [AppendPackage(calls, c, r.pkg) EXCEPT ![c].idx = @ + 1]
                  ELSE calls' = [calls EXCEPT ![c].idx = @ + 1]
          ELSE calls' = [calls EXCEPT ![c] =
                            [@ EXCEPT !.pc = "done",
                                      !.pkgs = IF Len(me.allPackages) = 0
                                               THEN getMockPackage(opts)
                                               ELSE me.allPackages,
                                      !.err = NoError]]
    /\ UNCHANGED indexerVars

(* the caller has taken the result; it may call Get again *)
GetReturn(c) ==
    /\ calls[c].pc = "done"
    /\ calls' = [calls EXCEPT ![c] = IdleCall]
    /\ UNCHANGED indexerVars

(* Init is called once, before any Get *)
InitBeforeGets ==
    /\ lastOp = "NewIndexer"
    /\ \A c \in Callers : calls[c].pc = "idle"
    /\ IndexerInit

NextConc ==
    \/ InitBeforeGets
    \/ \E c \in Callers : GetCall(c)
    \/ \E c \in Callers : GetTags(c)
    \/ \E c \in Callers : GetLoop(c)
    \/ \E c \in Callers : GetReturn(c)

(* NewIndexer, with the options Get reads: Registry and Repository (the
   credentials and Insecure only shape the Client, which Get hands to
   registry.Tags) *)
InitConc ==
    /\ Init
    /\ opts.Username = EmptyString
    /\ opts.Password = EmptyString
    /\ ~opts.Insecure

SpecConc == InitConc /\ [][NextConc]_vars

----------------------------------------------------------------------------
(* Properties *)

(* the indexer is Ready when it holds a handle *)
Ready == ~repo.isNil

(* the last call was a Get that listed the tags of the repository *)
GotTags == lastOp = "Get" /\ lastEnum.called /\ lastEnum.err = NoError

(* the last call was a Get whose listing of the tags failed *)
GotTagsError == lastOp = "Get" /\ lastEnum.called /\ lastEnum.err # NoError

(* C1: every Get on a Ready indexer returns at least one package, whether
   the listing of the tags fails, yields no tag or yields any list of tags *)
C1_GetNeverEmpty ==
    (lastOp = "Get" /\ Ready) => Len(lastPkgs) >= 1

(* a Get on a Ready indexer listed an empty tag list and returned one package *)
C1_Witness ==
    /\ GotTags /\ Ready
    /\ lastEnum.tags = <<>>
    /\ Len(lastPkgs) = 1

(* C2: when the listing of the tags fails, Get on a Ready indexer returns a
   nil error and exactly one package, named "oci-mock-package", of version
   "1.0.0" and type "integration" *)
C2_TagsErrorGivesMock ==
    (GotTagsError /\ Ready) =>
        /\ lastErr = NoError
        /\ Len(lastPkgs) = 1
        /\ lastPkgs[1].Name = MockPackageName
        /\ lastPkgs[1].Version = <<"1", ".", "0", ".", "0">>
        /\ lastPkgs[1].Type = TypeIntegration

(* a Get on a Ready indexer saw the listing fail and returned the mock package *)
C2_Witness ==
    /\ GotTagsError /\ Ready
    /\ lastErr = NoError
    /\ lastPkgs = getMockPackage(opts)

(* C3: Init returns an error whenever Registry or Repository is empty; with
   both non-empty and a reference remote.NewRepository accepts, it returns
   nil and the indexer holds a handle *)
C3_InitFailsIffEmpty ==
    lastOp = "Init" =>
        /\ (opts.Registry = EmptyString \/ opts.Repository = EmptyString)
              => lastErr # NoError
        /\ (opts.Registry # EmptyString /\ opts.Repository # EmptyString /\ refOK)
              => (lastErr = NoError /\ Ready)

(* an Init with a Registry but no Repository has failed *)
C3_Witness ==
    /\ lastOp = "Init"
    /\ opts.Registry # EmptyString /\ opts.Repository = EmptyString
    /\ lastErr = ErrRepositoryRequired

(* C4: for each tag t listed, the version of its package is all of t after
   the first ':' when t has a ':', else "1.0.0"; its name is t before the
   first ':', or t when t has no ':' or nothing before the first ':' *)
C4_SplitOnFirstColon ==
    (GotTags /\ Len(lastPkgs) = Len(lastEnum.tags)) =>
        \A i \in 1..Len(lastEnum.tags) :
            LET t == lastEnum.tags[i]
                hasColon == \E k \in 1..Len(t) : t[k] = Colon
                first == CHOOSE k \in 1..Len(t) :
                             t[k] = Colon /\ \A j \in 1..(k-1) : t[j] # Colon
                left == IF hasColon THEN SubSeq(t, 1, first - 1) ELSE t
                right == IF hasColon THEN SubSeq(t, first + 1, Len(t))
                         ELSE <<"1", ".", "0", ".", "0">>
            IN /\ lastPkgs[i].Version = right
               /\ lastPkgs[i].Name = (IF left = EmptyString THEN t ELSE left)

(* C5: until an Init has succeeded the indexer holds no handle, failed Init
   calls included, and every Get returns the not-initialized error and no
   package *)
C5_FailedInitKeepsUninitialized ==
    ~initOK =>
        /\ repo = NilRepo
        /\ lastOp = "Get" => (lastErr = ErrNotInitialized /\ lastPkgs = <<>>)

(* a Get after a failed Init was rejected *)
C5_Witness ==
    /\ initFailed /\ ~initOK
    /\ lastOp = "Get"
    /\ lastErr = ErrNotInitialized

(* C6: once Close has been called, every Get returns the not-initialized
   error and no package *)
C6_GetRejectedAfterClose ==
    (closed /\ lastOp = "Get") => (lastErr = ErrNotInitialized /\ lastPkgs = <<>>)

(* C7: Close returns nil in every state, and a Close that follows a Close
   leaves the indexer as the first one left it *)
C7_CloseIdempotent ==
    [][lastOp' = "Close" =>
          /\ lastErr' = NoError
          /\ lastOp = "Close" => (repo' = repo /\ opts' = opts)]_vars

(* Close was called twice in a row on an indexer that was never initialized *)
C7_Witness ==
    /\ lastOp = "Close" /\ reclosed
    /\ ~initOK
    /\ lastErr = NoError

(* C8: every package Get returns has a non-empty name and a non-empty
   version, whatever tags were listed *)
C8_NameAndVersionNonEmpty ==
    (lastOp = "Get" /\ lastErr = NoError) =>
        \A i \in 1..Len(lastPkgs) :
            lastPkgs[i].Name # EmptyString /\ lastPkgs[i].Version # EmptyString

(* C9: when a non-empty tag list is listed, Get on a Ready indexer returns
   one package per tag, in the order of the list, the i-th built from the
   i-th tag with base path "oci://<Registry>/<Repository>:<tag>" *)
C9_OnePackagePerTagInOrder ==
    (GotTags /\ Ready /\ lastEnum.tags # <<>>) =>
        /\ lastErr = NoError
        /\ Len(lastPkgs) = Len(lastEnum.tags)
        /\ \A i \in 1..Len(lastEnum.tags) :
              /\ lastPkgs[i] = getPackageFromTag(opts, lastEnum.tags[i]).pkg
              /\ lastPkgs[i].BasePath =
                    <<"o", "c", "i", ":", "/", "/">> \o opts.Registry \o <<"/">>
                    \o opts.Repository \o <<":">> \o lastEnum.tags[i]

(* tags "a:a" then "a" gave the packages {a, a} then {a, 1.0.0} *)
C9_Witness ==
    /\ GotTags /\ Ready
    /\ lastEnum.tags = << <<"a", ":", "a">>, <<"a">> >>
    /\ Len(lastPkgs) = 2
    /\ lastPkgs[1].Name = <<"a">> /\ lastPkgs[1].Version = <<"a">>
    /\ lastPkgs[2].Name = <<"a">> /\ lastPkgs[2].Version = <<"1", ".", "0", ".", "0">>

(* C10: what Get returned is what it returns, in the same state and with
   the same outcome of the listing, for every other opts argument *)
C10_FilterIgnored ==
    lastOp = "Get" =>
        \A getOpts \in GetOptionsSet :
            /\ GetResult(opts, repo, getOpts, lastEnum).pkgs = lastPkgs
            /\ GetResult(opts, repo, getOpts, lastEnum).err = lastErr

(* a Get with a filter on the package name returned a package of another name *)
C10_Witness ==
    /\ GotTags /\ Ready
    /\ ~lastArg.isNil /\ ~lastArg.Filter.isNil
    /\ \E i \in 1..Len(lastPkgs) : lastPkgs[i].Name # lastArg.Filter.PackageName

(* C11: after a successful Init with Insecure set, the Client of the handle
   skips certificate verification, with and without credentials *)
C11_InsecureSkipsVerification ==
    (Ready /\ opts.Insecure) => repo.Client.InsecureSkipVerify

(* C12: after a successful Init with a Username and a Password, the Client
   of the handle carries them *)
C12_CredentialsAttached ==
    (Ready /\ opts.Username # EmptyString /\ opts.Password # EmptyString)
        => repo.Client.HasCredential

(* C13: when the listing succeeds with no tag, Get on a Ready indexer
   returns the one mock package, as it does when the listing fails *)
C13_NoTagsGivesMock ==
    (GotTags /\ Ready /\ lastEnum.tags = <<>>) =>
        /\ Len(lastPkgs) = 1
        /\ lastPkgs[1].Name = MockPackageName
        /\ lastPkgs = GetResult(opts, repo, lastArg, TagsFailed).pkgs

(* a Get on a Ready indexer listed no tag and returned the mock package *)
C13_Witness ==
    /\ GotTags /\ Ready
    /\ lastEnum.tags = <<>>
    /\ lastPkgs = getMockPackage(opts)

(* C14: a Get on a Ready indexer returns a nil error, whether the listing
   fails, lists no tag or lists any tags *)
C14_GetNeverFails ==
    (lastOp = "Get" /\ Ready) => lastErr = NoError

(* a Get on a Ready indexer saw the listing fail, logged a warning and
   returned a nil error *)
C14_Witness ==
    /\ GotTagsError /\ Ready
    /\ \E k \in 1..Len(lastLogs) : lastLogs[k].level = "warn"
    /\ lastErr = NoError

(* C17: the mock package list depends on the options only: one package
   named "oci-mock-package", of version "1.0.0" and type "integration", with
   base path "oci://<Registry>/<Repository>:latest"; the packages built from
   tags have other categories, so none of them equals the mock package *)
C17_MockDeterministicAndDistinct ==
    /\ (lastOp = "Get" /\ Ready /\ (GotTagsError \/ lastEnum.tags = <<>>)) =>
          /\ Len(lastPkgs) = 1
          /\ lastPkgs[1].Name = MockPackageName
          /\ lastPkgs[1].Version = <<"1", ".", "0", ".", "0">>
          /\ lastPkgs[1].Type = TypeIntegration
          /\ lastPkgs[1].BasePath =
                <<"o", "c", "i", ":", "/", "/">> \o opts.Registry \o <<"/">>
                \o opts.Repository \o <<":", "l", "a", "t", "e", "s", "t">>
    /\ (GotTags /\ Ready /\ lastEnum.tags # <<>>) =>
          \A i \in 1..Len(lastPkgs) :
              /\ lastPkgs[i].Categories # getMockPackage(opts)[1].Categories
              /\ lastPkgs[i] # getMockPackage(opts)[1]

(* after the tags were listed, a later Get saw the listing fail and returned
   the mock package, of category "web" *)
C17_Witness ==
    /\ GotTagsError /\ Ready
    /\ remote.listed /\ remote.tags # <<>>
    /\ lastPkgs[1].Categories = <<CategoryWeb>>

(* C18: an Init that is asked for Insecure and makes the Client skip
   certificate verification logs an entry of level warn *)
C18_InsecureLogsWarning ==
    (lastOp = "Init" /\ lastErr = NoError /\ opts.Insecure
        /\ repo.Client.InsecureSkipVerify)
        => \E k \in 1..Len(lastLogs) : lastLogs[k].level = "warn"

(* C15: a Get call, in any state and with any outcome of the listing,
   leaves the handle, the options and the lifecycle history as they were *)
C15_GetChangesNothing ==
    [][lastOp' = "Get" =>
          /\ repo' = repo
          /\ opts' = opts
          /\ closed' = closed
          /\ initOK' = initOK]_vars

(* a Get after an earlier Get: the tags had been listed, this listing failed,
   and the indexer still holds the handle Init built *)
C15_Witness ==
    /\ lastOp = "Get" /\ lastEnum = TagsFailed
    /\ remote.listed
    /\ repo = NewHandle(opts)

(* C16: under every interleaving of the Get calls on a Ready indexer, a
   call in its loop holds the packages of the tags of its own listing it has
   gone through, in order, and a finished call has the result Get gives alone
   for the listing it saw *)
C16_ConcurrentGetsIndependent ==
    \A c \in Callers :
        /\ (Ready /\ calls[c].pc = "loop") =>
              calls[c].allPackages =
                  ProcessTags(opts, SubSeq(calls[c].enum.tags, 1, calls[c].idx - 1), <<>>)
        /\ (Ready /\ calls[c].pc = "done") =>
              /\ calls[c].pkgs = GetResult(opts, repo, calls[c].arg, calls[c].enum).pkgs
              /\ calls[c].err = GetResult(opts, repo, calls[c].arg, calls[c].enum).err

(* two calls are in the middle of their loops over different listings, each
   with one package appended *)
C16_Witness ==
    /\ Ready
    /\ \A c \in Callers :
          /\ calls[c].pc = "loop" /\ calls[c].idx = 2
          /\ Len(calls[c].allPackages) = 1
    /\ calls["c1"].enum.tags # calls["c2"].enum.tags

====
